---- MODULE Spec2Model ----
(***************************************************************************)
(* Model of src/src/main.rs: the spin-lock Mutex<T> with its three         *)
(* entry points with_lock (naive load-then-store), with_lock_2             *)
(* (compare_exchange_weak, all Relaxed) and with_lock_3                    *)
(* (compare_exchange_weak Acquire / store Release).                        *)
(*                                                                         *)
(* Memory model.  The AtomicBool `locked` is one coherent location: every  *)
(* store and every read-modify-write acts on its latest value.  The        *)
(* protected cell `v` is plain memory: it is the sequence of the values    *)
(* written to it, and every thread has a view, the index of the oldest     *)
(* write it may still read.  A Release store to `locked` publishes the     *)
(* storing thread's view, an Acquire read-modify-write that reads it       *)
(* joins that view, a Relaxed operation publishes and joins nothing, and   *)
(* a read-modify-write carries on the view of the store it read (release   *)
(* sequence).                                                              *)
(***************************************************************************)
EXTENDS Integers, Sequences, FiniteSets, TLC

\* ---------------------------------------------------------------- bounds
NumThreads == 2
MaxCalls == 4
MaxInit == 1

Threads == 1..NumThreads
InitVals == 0..MaxInit

\* ------------------------------------------------------------- constants
LOCKED == TRUE
UNLOCKED == FALSE

\* The three entry points, by the suffix of their names.
Variants == {1, 2, 3}
\* The closures f the callers pass: "incr" is |v| { *v += 1; *v }, "get" is
\* |v| *v, and "reenter" calls the same entry point on the same Mutex from
\* inside f (with "get" as the nested call's closure), "hang" is an f that
\* never returns, and "panic" is an f that panics.
Ops == {"incr", "get", "reenter", "hang", "panic"}

VARIABLES
  locked,     \* Mutex.locked: the AtomicBool's latest value
  lockedMsg,  \* the latest store to `locked`: the view it carries, whether
              \* it is a Release store, the storing thread, and (stamp) the
              \* index in v of the write the storing frame's f made
  v,          \* Mutex.v: the values written to the cell, oldest first
  view,       \* view[t]: index in v of the oldest write t may still read
  stack,      \* stack[t]: t's with_lock* frames, outermost first
  calls,      \* calls[t]: outermost calls of t that have returned (a
              \* workload that goes on for ever keeps no count)
  lastRet,    \* lastRet[t]: what t's last returned outermost call returned
  workload,   \* what the callers do: the entry points they call (fns), the
              \* closures they pass (ops), the threads that call (threads),
              \* and whether a thread stops after MaxCalls calls or calls
              \* for ever (forever)
  panicked    \* the threads that left a with_lock* call by a panic of f


vars == <<locked, lockedMsg, v, view, stack, calls, lastRet, workload, panicked>>

\* ---------------------------------------------------------------- helpers
Max(a, b) == IF a >= b THEN a ELSE b

Depth(t) == Len(stack[t])
Top(t) == stack[t][Len(stack[t])]
Pc(t) == IF stack[t] = <<>> THEN "idle" ELSE Top(t).pc
SetTop(t, fr) == [stack EXCEPT ![t] = [stack[t] EXCEPT ![Len(stack[t])] = fr]]

\* Outermost calls that have returned, and calls started, over all threads.
RECURSIVE SumCalls(_)
SumCalls(S) ==
  IF S = {} THEN 0
  ELSE LET t == CHOOSE x \in S : TRUE IN calls[t] + SumCalls(S \ {t})
Returned == SumCalls(Threads)
Started == Returned + Cardinality({t \in Threads : stack[t] # <<>>})

\* The value the cell holds: the last write.
Stored == v[Len(v)]

\* First statement of each entry point: the spin load of with_lock, the
\* compare_exchange_weak of with_lock_2 and with_lock_3.
Entry(fn) == IF fn = 1 THEN "load" ELSE "cas"

\* A frame of with_lock*: its entry point and closure, where it stands, the
\* value f read first (tmp), f's result (r), the index in v of f's write (w),
\* the store to `locked` its acquiring operation read (acq), and whether a
\* load of its wait loop has returned UNLOCKED (seen).
NewFrame(fn, op) ==
  [fn |-> fn, op |-> op, pc |-> Entry(fn), tmp |-> 0, r |-> 0, w |-> 0,
   acq |-> [rel |-> FALSE, by |-> 0, stamp |-> 0], seen |-> FALSE]

\* A frame is in its critical section from the store or compare-exchange
\* that took the lock up to its unlock store.
FrameInCS(fr) == fr.pc \in {"f", "f_write", "f_ret", "f_nested", "unlock"}
InCS(t) == \E i \in 1..Len(stack[t]) : FrameInCS(stack[t][i])
Holders == {t \in Threads : InCS(t)}

\* ------------------------------------------------------------------- Init
\* Mutex::new(t): locked = UNLOCKED, v = t.  The initial value is message 1
\* of v and every thread's view starts there.
New(t0) ==
  /\ locked = UNLOCKED
  /\ lockedMsg = [view |-> 1, rel |-> FALSE, by |-> 0, stamp |-> 0]
  /\ v = <<t0>>
  /\ view = [t \in Threads |-> 1]
  /\ stack = [t \in Threads |-> <<>>]
  /\ calls = [t \in Threads |-> 0]
  /\ lastRet = [t \in Threads |-> t0]
  /\ panicked = {}

\* ---------------------------------------------------------------- actions
\* A thread that is in no call starts one; the threads make MaxCalls calls
\* in all, split among them in any way, unless the workload goes on for ever.
Call(t) ==
  /\ t \in workload.threads
  /\ stack[t] = <<>>
  /\ workload.forever \/ Started < MaxCalls
  /\ \E fn \in workload.fns, op \in workload.ops :
       stack' = [stack EXCEPT ![t] = <<NewFrame(fn, op)>>]
  /\ UNCHANGED <<locked, lockedMsg, v, view, calls, lastRet, workload, panicked>>

\* Mutant of Load1: the loop waits while the load returns UNLOCKED.
Load1Inverted(t) ==
  /\ Pc(t) = "load"
  /\ IF locked = UNLOCKED
       THEN stack' = stack
       ELSE stack' = SetTop(t, [Top(t) EXCEPT !.pc = "store", !.seen = TRUE])
  /\ UNCHANGED <<locked, lockedMsg, v, view, calls, lastRet, workload, panicked>>

\* with_lock, line 25: while locked.load(Relaxed) != UNLOCKED {}
Load1(t) ==
  /\ Pc(t) = "load"
  /\ IF locked # UNLOCKED
       THEN stack' = stack
       ELSE stack' = SetTop(t, [Top(t) EXCEPT !.pc = "store", !.seen = TRUE])
  /\ UNCHANGED <<locked, lockedMsg, v, view, calls, lastRet, workload, panicked>>

\* Mutant of Store1: the store is given up when locked is no longer UNLOCKED.
Store1Checked(t) ==
  /\ Pc(t) = "store"
  /\ IF locked = UNLOCKED
       THEN /\ locked' = LOCKED
            /\ lockedMsg' = [view |-> 0, rel |-> FALSE, by |-> t, stamp |-> 0]
            /\ stack' = SetTop(t, [Top(t) EXCEPT !.pc = "f"])
       ELSE /\ stack' = SetTop(t, [Top(t) EXCEPT !.pc = "load"])
            /\ UNCHANGED <<locked, lockedMsg>>
  /\ UNCHANGED <<v, view, calls, lastRet, workload, panicked>>

\* with_lock, line 27: locked.store(LOCKED, Relaxed), whatever locked holds.
Store1(t) ==
  /\ Pc(t) = "store"
  /\ locked' = LOCKED
  /\ lockedMsg' = [view |-> 0, rel |-> FALSE, by |-> t, stamp |-> 0]
  /\ stack' = SetTop(t, [Top(t) EXCEPT !.pc = "f"])
  /\ UNCHANGED <<v, view, calls, lastRet, workload, panicked>>

\* Mutant of AcquiredView: the success ordering of with_lock_3 is Relaxed.
AcquiredViewRelaxed(t, fn) == view[t]

\* The success ordering of the compare-exchange: Relaxed in with_lock_2
\* (line 41), Acquire in with_lock_3 (line 65).
AcquiredView(t, fn) == IF fn = 3 THEN Max(view[t], lockedMsg.view) ELSE view[t]

\* Mutant of CasOk: a swap that does not compare.
CasOkNoCompare(t) ==
  /\ Pc(t) = "cas"
  /\ locked' = LOCKED
  /\ lockedMsg' = [view |-> lockedMsg.view, rel |-> FALSE, by |-> t, stamp |-> 0]
  /\ view' = [view EXCEPT ![t] = IF Top(t).fn = 3 THEN Max(view[t], lockedMsg.view) ELSE view[t]]
  /\ stack' = SetTop(t, [Top(t) EXCEPT !.pc = "f",
                !.acq = [rel |-> lockedMsg.rel, by |-> lockedMsg.by,
                         stamp |-> lockedMsg.stamp]])
  /\ UNCHANGED <<v, calls, lastRet, workload, panicked>>

\* Mutant of CasOk: the compare succeeds but LOCKED is not written (a load
\* in place of the read-modify-write).
CasOkNoWrite(t) ==
  /\ Pc(t) = "cas"
  /\ locked = UNLOCKED
  /\ view' = [view EXCEPT ![t] = IF Top(t).fn = 3 THEN Max(view[t], lockedMsg.view) ELSE view[t]]
  /\ stack' = SetTop(t, [Top(t) EXCEPT !.pc = "f",
                !.acq = [rel |-> lockedMsg.rel, by |-> lockedMsg.by,
                         stamp |-> lockedMsg.stamp]])
  /\ UNCHANGED <<locked, lockedMsg, v, calls, lastRet, workload, panicked>>

\* compare_exchange_weak(UNLOCKED, LOCKED, ..) returns Ok: it read UNLOCKED
\* and wrote LOCKED in one step.
CasOk(t) ==
  /\ Pc(t) = "cas"
  /\ locked = UNLOCKED
  /\ locked' = LOCKED
  /\ lockedMsg' = [view |-> lockedMsg.view, rel |-> FALSE, by |-> t, stamp |-> 0]
  /\ view' = [view EXCEPT ![t] = AcquiredView(t, Top(t).fn)]
  /\ stack' = SetTop(t, [Top(t) EXCEPT !.pc = "f",
                !.acq = [rel |-> lockedMsg.rel, by |-> lockedMsg.by,
                         stamp |-> lockedMsg.stamp]])
  /\ UNCHANGED <<v, calls, lastRet, workload, panicked>>

\* Mutant of CasFail: a re-entrant lock, the thread that holds the flag
\* goes on into f.
CasFailReentrant(t) ==
  /\ Pc(t) = "cas"
  /\ locked = LOCKED
  /\ stack' = SetTop(t, [Top(t) EXCEPT !.pc = IF lockedMsg.by = t THEN "f" ELSE "spin"])
  /\ UNCHANGED <<locked, lockedMsg, v, view, calls, lastRet, workload, panicked>>

\* Mutant of CasFail: the failed compare-exchange writes UNLOCKED back.
CasFailUnlocks(t) ==
  /\ Pc(t) = "cas"
  /\ locked = LOCKED
  /\ locked' = UNLOCKED
  /\ stack' = SetTop(t, [Top(t) EXCEPT !.pc = "spin"])
  /\ UNCHANGED <<lockedMsg, v, view, calls, lastRet, workload, panicked>>

\* compare_exchange_weak returns Err because locked is LOCKED.
CasFail(t) ==
  /\ Pc(t) = "cas"
  /\ locked = LOCKED
  /\ stack' = SetTop(t, [Top(t) EXCEPT !.pc = "spin"])
  /\ UNCHANGED <<locked, lockedMsg, v, view, calls, lastRet, workload, panicked>>

\* Mutant of CasSpurious: the Err of a spurious failure is taken for Ok.
CasSpuriousEnters(t) ==
  /\ Pc(t) = "cas"
  /\ locked = UNLOCKED
  /\ stack' = SetTop(t, [Top(t) EXCEPT !.pc = "f"])
  /\ UNCHANGED <<locked, lockedMsg, v, view, calls, lastRet, workload, panicked>>

\* compare_exchange_weak returns Err although locked is UNLOCKED (the weak
\* form may fail spuriously).
CasSpurious(t) ==
  /\ Pc(t) = "cas"
  /\ locked = UNLOCKED
  /\ stack' = SetTop(t, [Top(t) EXCEPT !.pc = "spin"])
  /\ UNCHANGED <<locked, lockedMsg, v, view, calls, lastRet, workload, panicked>>

\* Mutant of Spin: no inner loop, the compare-exchange is retried at once.
SpinNoCheck(t) ==
  /\ Pc(t) = "spin"
  /\ stack' = SetTop(t, [Top(t) EXCEPT !.pc = "cas", !.seen = (locked = UNLOCKED)])
  /\ UNCHANGED <<locked, lockedMsg, v, view, calls, lastRet, workload, panicked>>

\* Mutant of Spin: the inner loop waits while the load returns UNLOCKED.
SpinInverted(t) ==
  /\ Pc(t) = "spin"
  /\ IF locked = UNLOCKED
       THEN stack' = stack
       ELSE stack' = SetTop(t, [Top(t) EXCEPT !.pc = "cas", !.seen = TRUE])
  /\ UNCHANGED <<locked, lockedMsg, v, view, calls, lastRet, workload, panicked>>

\* Lines 49 and 73: while locked.load(Relaxed) == LOCKED {}
Spin(t) ==
  /\ Pc(t) = "spin"
  /\ IF locked = LOCKED
       THEN stack' = stack
       ELSE stack' = SetTop(t, [Top(t) EXCEPT !.pc = "cas", !.seen = TRUE])
  /\ UNCHANGED <<locked, lockedMsg, v, view, calls, lastRet, workload, panicked>>

\* f = |v| { *v += 1; *v }, the read of *v: any write the thread's view
\* has not passed.
FRead(t) ==
  /\ Pc(t) = "f"
  /\ Top(t).op = "incr"
  /\ \E i \in view[t]..Len(v) :
       /\ view' = [view EXCEPT ![t] = i]
       /\ stack' = SetTop(t, [Top(t) EXCEPT !.pc = "f_write", !.tmp = v[i]])
  /\ UNCHANGED <<locked, lockedMsg, v, calls, lastRet, workload, panicked>>

\* Mutant of FWrite: the value read is written back without the increment.
FWriteNoIncrement(t) ==
  /\ Pc(t) = "f_write"
  /\ v' = Append(v, Top(t).tmp)
  /\ view' = [view EXCEPT ![t] = Len(v) + 1]
  /\ stack' = SetTop(t, [Top(t) EXCEPT !.pc = "f_ret", !.w = Len(v) + 1])
  /\ UNCHANGED <<locked, lockedMsg, calls, lastRet, workload, panicked>>

\* f = |v| { *v += 1; *v }, the write of *v += 1.
FWrite(t) ==
  /\ Pc(t) = "f_write"
  /\ v' = Append(v, Top(t).tmp + 1)
  /\ view' = [view EXCEPT ![t] = Len(v) + 1]
  /\ stack' = SetTop(t, [Top(t) EXCEPT !.pc = "f_ret", !.w = Len(v) + 1])
  /\ UNCHANGED <<locked, lockedMsg, calls, lastRet, workload, panicked>>

\* Mutant of FResult: f returns the value from before the increment.
FResultOld(t) ==
  /\ Pc(t) = "f_ret"
  /\ stack' = SetTop(t, [Top(t) EXCEPT !.pc = "unlock", !.r = Top(t).tmp])
  /\ UNCHANGED <<locked, lockedMsg, v, view, calls, lastRet, workload, panicked>>

\* f = |v| { *v += 1; *v }, the final read of *v, which is f's result: the
\* thread's own write, or a later write of a thread that races with it.
FResult(t) ==
  /\ Pc(t) = "f_ret"
  /\ \E i \in view[t]..Len(v) :
       /\ view' = [view EXCEPT ![t] = i]
       /\ stack' = SetTop(t, [Top(t) EXCEPT !.pc = "unlock", !.r = v[i]])
  /\ UNCHANGED <<locked, lockedMsg, v, calls, lastRet, workload, panicked>>

\* f = |v| *v: one read, which is f's result.
FGet(t) ==
  /\ Pc(t) = "f"
  /\ Top(t).op = "get"
  /\ \E i \in view[t]..Len(v) :
       /\ view' = [view EXCEPT ![t] = i]
       /\ stack' = SetTop(t, [Top(t) EXCEPT !.pc = "unlock", !.tmp = v[i], !.r = v[i]])
  /\ UNCHANGED <<locked, lockedMsg, v, calls, lastRet, workload, panicked>>

\* f calls the same entry point on the same Mutex.
FReenter(t) ==
  /\ Pc(t) = "f"
  /\ Top(t).op = "reenter"
  /\ stack' = [stack EXCEPT ![t] =
                 Append(SetTop(t, [Top(t) EXCEPT !.pc = "f_nested"])[t],
                        NewFrame(Top(t).fn, "get"))]
  /\ UNCHANGED <<locked, lockedMsg, v, view, calls, lastRet, workload, panicked>>

\* Mutant of ReleasedView: every unlock store is a Release store.
ReleasedViewAlways(t, fn) == view[t]

\* Mutant of ReleasedView: the unlock store of with_lock_3 is Relaxed.
ReleasedViewRelaxed(t, fn) == 0

\* The ordering of the unlock store: Relaxed in with_lock (line 30) and
\* with_lock_2 (line 53), Release in with_lock_3 (line 77).
ReleasedView(t, fn) == IF fn = 3 THEN view[t] ELSE 0

\* Mutant of Unlock: the call returns f's result without the unlock store.
UnlockNoStore(t) ==
  /\ Pc(t) = "unlock"
  /\ Depth(t) = 1
  /\ stack' = [stack EXCEPT ![t] = <<>>]
  /\ lastRet' = [lastRet EXCEPT ![t] = Top(t).r]
  /\ calls' = [calls EXCEPT ![t] = IF workload.forever THEN @ ELSE @ + 1]
  /\ UNCHANGED <<locked, lockedMsg, v, view, workload, panicked>>

\* locked.store(UNLOCKED, ..); ret
Unlock(t) ==
  /\ Pc(t) = "unlock"
  /\ locked' = UNLOCKED
  /\ lockedMsg' = [view |-> ReleasedView(t, Top(t).fn), rel |-> Top(t).fn = 3,
                   by |-> t, stamp |-> Top(t).w]
  /\ IF Depth(t) = 1
       THEN /\ stack' = [stack EXCEPT ![t] = <<>>]
            /\ lastRet' = [lastRet EXCEPT ![t] = Top(t).r]
            /\ calls' = [calls EXCEPT ![t] = IF workload.forever THEN @ ELSE @ + 1]
       ELSE /\ stack' = [stack EXCEPT ![t] =
                           [i \in 1..(Depth(t) - 1) |->
                              IF i = Depth(t) - 1
                                THEN [stack[t][i] EXCEPT !.pc = "unlock", !.r = Top(t).r,
                                                         !.w = Top(t).w]
                                ELSE stack[t][i]]]
            /\ UNCHANGED <<lastRet, calls>>
  /\ UNCHANGED <<v, view, workload, panicked>>

\* f never returns: the thread stays in f, between the operation that took
\* the lock and the unlock store it never reaches.
FHang(t) ==
  /\ Pc(t) = "f"
  /\ Top(t).op = "hang"
  /\ UNCHANGED vars

\* Mutant of FPanic: a guard unlocks while the panic unwinds.
FPanicUnlocks(t) ==
  /\ Pc(t) = "f"
  /\ Top(t).op = "panic"
  /\ locked' = UNLOCKED
  /\ lockedMsg' = [view |-> ReleasedView(t, Top(t).fn), rel |-> Top(t).fn = 3,
                   by |-> t, stamp |-> 0]
  /\ stack' = [stack EXCEPT ![t] = <<>>]
  /\ panicked' = panicked \cup {t}
  /\ UNCHANGED <<v, view, calls, lastRet, workload>>

\* f panics: the unwinding leaves with_lock* from the call of f (lines 29,
\* 52, 76) and skips the unlock store and the return; nothing is written to
\* the Mutex.  The thread may go on (the panic caught) and call again.
FPanic(t) ==
  /\ Pc(t) = "f"
  /\ Top(t).op = "panic"
  /\ stack' = [stack EXCEPT ![t] = <<>>]
  /\ panicked' = panicked \cup {t}
  /\ UNCHANGED <<locked, lockedMsg, v, view, calls, lastRet, workload>>

\* ------------------------------------------------- with_lock_2, with_lock_3
\* NumThreads threads making MaxCalls calls with the increment as f: all of
\* with_lock_2, all of with_lock_3, or a mix of the two.
InitCas ==
  /\ New(0)
  /\ \E fns \in {{2}, {3}, {2, 3}} :
       workload = [fns |-> fns, ops |-> {"incr"}, threads |-> Threads,
                   forever |-> FALSE]

NextCas ==
  \E t \in Threads :
    \/ Call(t)
    \/ CasOk(t)
    \/ CasFail(t)
    \/ CasSpurious(t)
    \/ Spin(t)
    \/ FRead(t)
    \/ FWrite(t)
    \/ FResult(t)
    \/ Unlock(t)

SpecCas == InitCas /\ [][NextCas]_vars

\* ------------------------------------------------------------ with_lock
\* NumThreads threads making MaxCalls calls of the naive with_lock with the
\* increment as f.
InitNaive ==
  /\ New(0)
  /\ workload = [fns |-> {1}, ops |-> {"incr"}, threads |-> Threads,
                 forever |-> FALSE]

NextNaive ==
  \E t \in Threads :
    \/ Call(t)
    \/ Load1(t)
    \/ Store1(t)
    \/ FRead(t)
    \/ FWrite(t)
    \/ FResult(t)
    \/ Unlock(t)

SpecNaive == InitNaive /\ [][NextNaive]_vars

\* ------------------------------------------------------------ one thread
\* One thread alone makes MaxCalls calls, each of any of the three entry
\* points, with the increment as f.  No compare-exchange of a thread that
\* is alone finds LOCKED, so CasFail is not among its steps
\* (C7_ProgressUnlessSpurious checks that it is never enabled).
InitSeq ==
  /\ \E t0 \in InitVals : New(t0)
  /\ \E t \in Threads :
       workload = [fns |-> Variants, ops |-> {"incr"}, threads |-> {t},
                   forever |-> FALSE]

NextSeq ==
  \E t \in Threads :
    \/ Call(t)
    \/ Load1(t)
    \/ Store1(t)
    \/ CasOk(t)
    \/ CasSpurious(t)
    \/ Spin(t)
    \/ FRead(t)
    \/ FWrite(t)
    \/ FResult(t)
    \/ Unlock(t)

SpecSeq == InitSeq /\ [][NextSeq]_vars

\* The thread runs: it is not stopped for ever while it has a step to take.
SpecSeqFair == SpecSeq /\ WF_vars(NextSeq)

\* ---------------------------------------------------------------- re-entry
\* NumThreads threads making MaxCalls calls of one entry point (or of
\* with_lock_2 and with_lock_3), whose f reads the cell or is a nested call
\* of the same entry point on the same Mutex.
InitReenter ==
  /\ New(0)
  /\ \E fns \in {{1}, {2}, {3}, {2, 3}} :
       workload = [fns |-> fns, ops |-> {"get", "reenter"}, threads |-> Threads,
                   forever |-> FALSE]

NextReenter ==
  \E t \in Threads :
    \/ Call(t)
    \/ Load1(t)
    \/ Store1(t)
    \/ CasOk(t)
    \/ CasFail(t)
    \/ CasSpurious(t)
    \/ Spin(t)
    \/ FGet(t)
    \/ FReenter(t)
    \/ Unlock(t)

SpecReenter == InitReenter /\ [][NextReenter]_vars

\* ------------------------------------------------------------ fair threads
\* NumThreads threads calling one entry point with f = |v| *v, either
\* MaxCalls times in all or for ever, every thread running on: a thread is
\* not stopped for ever while it has a step that changes the state (a spin
\* load that finds the flag LOCKED changes nothing).
InitFair ==
  /\ New(0)
  /\ \E fns \in {{1}, {2}, {3}}, forever \in BOOLEAN :
       workload = [fns |-> fns, ops |-> {"get"}, threads |-> Threads,
                   forever |-> forever]

StepFair(t) ==
  \/ Call(t)
  \/ Load1(t)
  \/ Store1(t)
  \/ CasOk(t)
  \/ CasFail(t)
  \/ CasSpurious(t)
  \/ Spin(t)
  \/ FGet(t)
  \/ Unlock(t)

NextFair == \E t \in Threads : StepFair(t)

SpecFair ==
  InitFair /\ [][NextFair]_vars /\ \A t \in Threads : WF_vars(StepFair(t))

\* ------------------------------------------------- f that does not return
\* NumThreads threads making MaxCalls calls of one entry point, whose f
\* reads the cell, never returns, or panics.
InitStuck ==
  /\ New(0)
  /\ \E fns \in {{1}, {2}, {3}} :
       workload = [fns |-> fns, ops |-> {"get", "hang", "panic"},
                   threads |-> Threads, forever |-> FALSE]

NextStuck ==
  \E t \in Threads :
    \/ Call(t)
    \/ Load1(t)
    \/ Store1(t)
    \/ CasOk(t)
    \/ CasFail(t)
    \/ CasSpurious(t)
    \/ Spin(t)
    \/ FGet(t)
    \/ FHang(t)
    \/ FPanic(t)
    \/ Unlock(t)

SpecStuck == InitStuck /\ [][NextStuck]_vars

\* ------------------------------------------------------- any entry point
\* NumThreads threads making MaxCalls calls of one entry point, whichever
\* it is, with the increment as f.
InitAny ==
  /\ New(0)
  /\ \E fns \in {{1}, {2}, {3}} :
       workload = [fns |-> fns, ops |-> {"incr"}, threads |-> Threads,
                   forever |-> FALSE]

NextAny ==
  \E t \in Threads :
    \/ Call(t)
    \/ Load1(t)
    \/ Store1(t)
    \/ CasOk(t)
    \/ CasFail(t)
    \/ CasSpurious(t)
    \/ Spin(t)
    \/ FRead(t)
    \/ FWrite(t)
    \/ FResult(t)
    \/ Unlock(t)

SpecAny == InitAny /\ [][NextAny]_vars

\* ------------------------------------------ with_lock and with_lock_3 mixed
\* NumThreads threads making MaxCalls calls on the same Mutex, each call of
\* the naive with_lock or of with_lock_3, with f = |v| *v.
InitMixed ==
  /\ New(0)
  /\ workload = [fns |-> {1, 3}, ops |-> {"get"}, threads |-> Threads,
                 forever |-> FALSE]

NextMixed ==
  \E t \in Threads :
    \/ Call(t)
    \/ Load1(t)
    \/ Store1(t)
    \/ CasOk(t)
    \/ CasFail(t)
    \/ CasSpurious(t)
    \/ Spin(t)
    \/ FGet(t)
    \/ Unlock(t)

SpecMixed == InitMixed /\ [][NextMixed]_vars

\* All MaxCalls calls have been made and every one has returned.
AllReturned == Returned = MaxCalls /\ \A t \in Threads : stack[t] = <<>>

\* C1: under with_lock_2 and with_lock_3 at most one thread is between its
\* successful compare-exchange and its unlock store (is executing f).
C1_MutualExclusion == Cardinality(Holders) <= 1

\* One thread executes f while another has failed its compare-exchange on
\* the LOCKED flag and waits in the inner loop.
C1_Witness ==
  \E a, b \in Threads : a # b /\ Pc(a) = "f_write" /\ Pc(b) = "spin" /\ locked = LOCKED

\* C2 as stated: once all the increments made under with_lock_2 or
\* with_lock_3 have returned, the counter is the initial value plus their
\* number (T * N for T threads of N calls each).
C2_NoLostUpdates == AllReturned => Stored = v[1] + MaxCalls

\* C2 as amended: the count is exact when every call is a with_lock_3.
C2_NoLostUpdates3 ==
  (workload.fns = {3} /\ AllReturned) => Stored = v[1] + MaxCalls

\* All calls were with_lock_3, all have returned, and every thread made
\* at least one of them.
C2_Witness ==
  /\ workload.fns = {3}
  /\ AllReturned
  /\ Stored = v[1] + MaxCalls
  /\ \A t \in Threads : calls[t] >= 1

\* Executing f itself: between taking the lock and the unlock store.
ExecutingF(t) == Pc(t) \in {"f", "f_write", "f_ret"}

\* C3: the naive with_lock does not exclude.  A thread that has loaded
\* UNLOCKED (it stands at the store of line 27) enters f with its next step
\* whatever `locked` holds by then, and its store takes no other thread out
\* of its critical section: two threads that both loaded UNLOCKED before
\* either stored both execute f (C3_Witness is that state).
C3_NaiveStoreEnters ==
  [][\A a \in Threads :
       (Pc(a) = "store" /\ stack'[a] # stack[a]) =>
          /\ ExecutingF(a)'
          /\ locked' = LOCKED
          /\ \A b \in Threads \ {a} : InCS(b) => InCS(b)']_vars

\* Two threads execute f at the same time.
C3_Witness ==
  \E a, b \in Threads : a # b /\ ExecutingF(a) /\ ExecutingF(b) /\ workload.fns = {1}

\* C4: under the naive with_lock the final counter can fall short.  In
\* every state where all MaxCalls increments have returned every one of
\* them has written the cell, and the counter is above the initial value and
\* at most initial + MaxCalls; C4_Witness is a run that lost an update.
C4_NaiveCountBounds ==
  AllReturned =>
    /\ Stored >= v[1] + 1
    /\ Stored <= v[1] + MaxCalls
    /\ Len(v) = 1 + MaxCalls

\* All calls of with_lock have returned and the counter is short.
C4_Witness ==
  /\ workload.fns = {1}
  /\ AllReturned
  /\ Stored < v[1] + MaxCalls
  /\ \A t \in Threads : calls[t] >= 1

\* C5: a with_lock_3 frame whose Acquire compare-exchange read the Release
\* unlock store of a with_lock_3 frame A reads, inside f, the write A's f
\* made or a later one, never an older value.
C5_Visibility ==
  \A t \in Threads :
    (Pc(t) = "f_write" /\ Top(t).fn = 3 /\ Top(t).acq.rel) =>
       /\ view[t] >= Top(t).acq.stamp
       /\ Top(t).tmp = v[view[t]]
       /\ Top(t).tmp >= v[Top(t).acq.stamp]

\* Thread t, in its first call, has read the write of another thread's
\* with_lock_3 critical section although its own view of v was older.
C5_Witness ==
  \E t \in Threads :
    /\ Pc(t) = "f_write" /\ Top(t).fn = 3 /\ Top(t).acq.rel
    /\ Top(t).acq.by # t
    /\ calls[t] = 0
    /\ Top(t).acq.stamp >= 2
    /\ view[t] = Top(t).acq.stamp

\* C10: the flag of with_lock_2 / with_lock_3 starts UNLOCKED; it goes
\* UNLOCKED -> LOCKED only by a successful compare-exchange and
\* LOCKED -> UNLOCKED only by the unlock store of the thread whose
\* compare-exchange last succeeded; it is LOCKED exactly when one thread is
\* between its successful compare-exchange and its unlock store, and it
\* changes exactly when a thread enters or leaves its critical section.
C10_FlagStateMachine ==
  /\ locked = UNLOCKED
  /\ [](locked = LOCKED <=> Cardinality(Holders) = 1)
  /\ [](locked = UNLOCKED <=> Holders = {})
  /\ [][(locked = UNLOCKED /\ locked' = LOCKED) =>
          \E t \in Threads : /\ Pc(t) = "cas" /\ Pc(t)' = "f"
                              /\ lockedMsg'.by = t
                              /\ Holders' = {t}]_vars
  /\ [][(locked = LOCKED /\ locked' = UNLOCKED) =>
          \E t \in Threads : /\ Pc(t) = "unlock" /\ Pc(t)' = "idle"
                              /\ lockedMsg.by = t
                              /\ Holders = {t} /\ Holders' = {}]_vars
  /\ [][(Holders' # Holders) <=> (locked' # locked)]_vars

\* The flag is LOCKED by the thread whose compare-exchange succeeded, after
\* an earlier critical section has gone through its whole cycle.
C10_Witness ==
  /\ locked = LOCKED
  /\ \E t \in Threads : Holders = {t} /\ lockedMsg.by = t
  /\ \E u \in Threads : calls[u] >= 1

\* C6: one thread alone, any variant per call, f = increment then return
\* the value.  After its k-th call the result is v0 + k, the cell holds
\* v0 + k and the flag is UNLOCKED; f's result is v0 + k (seen at the unlock
\* store) and the call returns exactly that result.
C6_SequentialRoundTrip ==
  /\ [](\A t \in workload.threads :
          /\ stack[t] = <<>> =>
                /\ Stored = v[1] + calls[t]
                /\ locked = UNLOCKED
                /\ calls[t] >= 1 => lastRet[t] = v[1] + calls[t]
          /\ Pc(t) = "unlock" => Top(t).r = v[1] + calls[t] + 1)
  /\ [][\A t \in workload.threads :
          (stack[t] # <<>> /\ stack'[t] = <<>>) =>
             /\ lastRet'[t] = Top(t).r
             /\ calls'[t] = calls[t] + 1]_vars

\* The thread has returned from its last call, having used every variant.
C6_Witness ==
  \E t \in workload.threads :
    /\ stack[t] = <<>>
    /\ calls[t] = MaxCalls
    /\ lastRet[t] = v[1] + MaxCalls
    /\ Stored = v[1] + MaxCalls
    /\ locked = UNLOCKED

NestedAcquired(t) ==
  \/ Depth(t) >= 2 /\ FrameInCS(Top(t))
  \/ Depth(t) >= 1 /\ stack[t][1].op = "reenter" /\ stack[t][1].pc = "unlock"

\* C8 as stated: for every variant, the nested call of a thread that
\* re-enters from inside f never executes its f and never returns.
C8_ReentryHangs == \A t \in Threads : ~NestedAcquired(t)

\* C8 as amended: the nested call never acquires under with_lock_2 and
\* with_lock_3; under with_lock it acquires only when another thread has
\* called with_lock on the Mutex.
C8_ReentryHangsUnlessRaced ==
  \A t \in Threads :
    NestedAcquired(t) =>
      /\ stack[t][1].fn = 1
      /\ \E u \in Threads \ {t} : calls[u] > 0 \/ stack[u] # <<>>

\* A thread holds the flag by its outer call and waits for it in its
\* nested call, for each kind of acquire loop.
C8_Witness ==
  /\ \E t \in Threads : /\ Depth(t) = 2 /\ Pc(t) = "spin" /\ locked = LOCKED
                          /\ lockedMsg.by = t /\ Holders = {t}
  /\ \A u \in Threads : stack[u] # <<>>

\* Some compare_exchange_weak fails spuriously again and again for ever.
SpuriousForever == []<><<\E u \in Threads : CasSpurious(u)>>_vars

\* A load of the wait loop of t's call has returned UNLOCKED.
SeenUnlocked(t) == stack[t] # <<>> /\ Top(t).seen

\* C9 as stated, in its weakest reading: under fair scheduling, with every
\* f terminating (and taking fair to include that compare_exchange_weak
\* does not fail spuriously for ever), every call that has observed the flag
\* UNLOCKED enters its critical section and returns.
C9_EveryCallReturns ==
  \/ \A t \in Threads : SeenUnlocked(t) ~> (stack[t] = <<>>)
  \/ SpuriousForever

\* C9 as amended: under the same conditions every call returns when the
\* threads make finitely many calls in all; when they call for ever, calls
\* keep returning and a with_lock call that has observed UNLOCKED returns,
\* but a call of with_lock_2 or with_lock_3 (or a with_lock call that has
\* not yet observed UNLOCKED) may wait for ever while other threads take
\* the lock again and again.
C9_ReturnsIfFinite ==
  \/ /\ \A t \in Threads :
          (~workload.forever /\ stack[t] # <<>>) ~> (stack[t] = <<>>)
     /\ \A t \in Threads :
          (SeenUnlocked(t) /\ Top(t).fn = 1) ~> (stack[t] = <<>>)
     /\ workload.forever => []<><<\E t \in Threads : Unlock(t)>>_vars
  \/ SpuriousForever

\* With the threads calling for ever, one thread is about to release while
\* another, which has observed the flag UNLOCKED and then lost the
\* compare-exchange, waits in its inner loop.
C9_Witness ==
  /\ workload.forever
  /\ \E a, b \in Threads :
       /\ a # b /\ Pc(a) = "unlock" /\ Pc(b) = "spin" /\ Top(b).seen
       /\ locked = LOCKED /\ lockedMsg.by = a

\* The compare-exchange of t returns Ok in this step.
CasWins(t) == Pc(t) = "cas" /\ Pc(t)' = "f"

\* C11: single winner per acquisition under with_lock_2 and with_lock_3.  A
\* compare-exchange succeeds only on the UNLOCKED flag, sets it LOCKED in
\* the same step, and no other thread wins or holds at that step; from then
\* on the flag keeps the winner's LOCKED until the winner's own unlock
\* store.  So between two successful compare-exchanges lies the unlock
\* store of the first winner, and one UNLOCKED period has one winner.
C11_SingleWinner ==
  /\ [][\A t \in Threads :
          CasWins(t) =>
            /\ locked = UNLOCKED
            /\ locked' = LOCKED
            /\ lockedMsg'.by = t
            /\ \A u \in Threads \ {t} : ~CasWins(u) /\ ~InCS(u) /\ ~InCS(u)']_vars
  /\ [][\A t \in Threads :
          (locked = LOCKED /\ lockedMsg.by = t) =>
            \/ locked' = LOCKED /\ lockedMsg' = lockedMsg
            \/ /\ Pc(t) = "unlock" /\ stack'[t] = <<>>
               /\ locked' = UNLOCKED /\ lockedMsg'.by = t]_vars

\* Thread t has won the flag by reading the unlock store of thread u, the
\* winner before it, and u is already waiting for the flag again.
C11_Witness ==
  \E t, u \in Threads :
    /\ t # u /\ InCS(t) /\ Top(t).acq.by = u
    /\ locked = LOCKED /\ lockedMsg.by = t
    /\ Pc(u) = "spin" /\ calls[u] >= 1

\* The thread is in its critical section, in an f that never returns.
Hung(t) == Pc(t) = "f" /\ Top(t).op = "hang"

\* The thread is in the wait loop of a with_lock* call.
Waiting(t) == Pc(t) \in {"load", "cas", "spin"}

\* Every thread but a is in no call or in the wait loop of with_lock.
OthersAtLoad(a) == \A b \in Threads \ {a} : Pc(b) \in {"idle", "load"}

\* C12 as stated: for every variant, while a thread is in its critical
\* section with an f that never returns, a thread that is in the wait loop
\* of a with_lock* call stays in it: it neither enters nor returns.
C12_HolderBlocksAll ==
  [][\A a, b \in Threads :
       (a # b /\ Hung(a) /\ Waiting(b)) => Waiting(b)']_vars

\* C12 as amended: that holds under with_lock_2 and with_lock_3, where the
\* flag stays LOCKED; under with_lock it holds from a state on in which the
\* flag is LOCKED and no other thread is past its wait loop (at the store
\* of line 27 or in its own critical section).
C12_HolderBlocksUnlessRaced ==
  /\ [][\A a, b \in Threads :
          (a # b /\ Hung(a) /\ Waiting(b) /\ 1 \notin workload.fns) =>
             Waiting(b)' /\ locked = LOCKED /\ locked' = LOCKED]_vars
  /\ [][\A a \in Threads :
          (Hung(a) /\ workload.fns = {1} /\ locked = LOCKED /\ OthersAtLoad(a)) =>
             locked' = LOCKED /\ OthersAtLoad(a)']_vars

\* One thread hangs in its critical section while another, which has
\* returned from an earlier call, waits in the inner loop.
C12_Witness ==
  \E a, b \in Threads :
    /\ a # b /\ Hung(a) /\ Pc(b) = "spin" /\ calls[b] >= 1
    /\ locked = LOCKED /\ lockedMsg.by = a

\* C13 as stated: in every variant, once an f has panicked the flag is
\* LOCKED in every later state.
C13_PanicLeavesLocked == panicked # {} => locked = LOCKED

\* The panic of t's f unwinds out of with_lock* in this step.
Panics(t) == Pc(t) = "f" /\ Top(t).op = "panic" /\ stack'[t] = <<>>

\* C13 as amended: in every variant the panic writes nothing (no unlock
\* store, no poison, no result).  Under with_lock_2 and with_lock_3 the
\* flag is then LOCKED in every later state, no call acquires and no call
\* returns.  Under with_lock the flag stays LOCKED from a state on in which
\* it is LOCKED and no thread is past its wait loop.
C13_PanicLeavesLockedUnlessRaced ==
  /\ [][\A t \in Threads :
          Panics(t) =>
            /\ locked' = locked /\ lockedMsg' = lockedMsg /\ v' = v
            /\ calls' = calls /\ lastRet' = lastRet]_vars
  /\ []((panicked # {} /\ 1 \notin workload.fns) => (locked = LOCKED /\ Holders = {}))
  /\ [][(panicked # {} /\ 1 \notin workload.fns) =>
          /\ \A t \in Threads : ~CasWins(t)
          /\ calls' = calls /\ lastRet' = lastRet]_vars
  /\ [][(panicked # {} /\ workload.fns = {1} /\ locked = LOCKED
          /\ \A b \in Threads : Pc(b) \in {"idle", "load"}) =>
             /\ locked' = LOCKED
             /\ \A b \in Threads : Pc(b)' \in {"idle", "load"}]_vars

\* The f of thread a has panicked in a with_lock_2 or with_lock_3 call, the
\* flag is LOCKED with no thread in a critical section, and thread b, which
\* called later, waits in the inner loop.
C13_Witness ==
  \E a, b \in Threads :
    /\ a # b /\ a \in panicked /\ stack[a] = <<>>
    /\ Pc(b) = "spin" /\ locked = LOCKED /\ lockedMsg.by = a /\ Holders = {}

\* C14: with_lock_2 excludes but does not publish.  When every call is a
\* with_lock_2 call at most one thread is in its critical section, no store
\* to the flag carries a view of the cell beyond its initial value, a
\* thread's view moves only by its own accesses inside f, and so a read
\* inside f returns any write from the thread's own view on: C14_Witness is
\* the state where it returned the value from before the previous
\* holder's write.
C14_ExcludesWithoutPublishing ==
  /\ [](workload.fns = {2} =>
          /\ Cardinality(Holders) <= 1
          /\ lockedMsg.view <= 1
          /\ ~lockedMsg.rel
          /\ \A t \in Threads : Pc(t) = "f_write" => Top(t).tmp = v[view[t]])
  /\ [][workload.fns = {2} =>
          \A t \in Threads : view'[t] # view[t] => ExecutingF(t)]_vars

\* Thread a wrote the cell in its with_lock_2 critical section and
\* unlocked; thread b acquired by reading a's unlock store and, alone in
\* its critical section, has read a value older than a's write.
C14_Witness ==
  \E a, b \in Threads :
    /\ a # b /\ workload.fns = {2}
    /\ Pc(b) = "f_write" /\ Holders = {b}
    /\ Top(b).acq.by = a /\ Top(b).acq.stamp >= 2
    /\ view[b] < Top(b).acq.stamp
    /\ Top(b).tmp = v[Top(b).acq.stamp] - 1

\* Thread t takes a step that moves it.
Moves(t) == stack'[t] # stack[t]

\* C15: test, then test-and-set.  A compare-exchange attempt either wins
\* or sends the thread into the inner loop; the thread leaves the inner
\* loop only by a load that returned UNLOCKED, and only to the next
\* compare-exchange; every compare-exchange attempt is the first of its
\* call or follows such a load; and the loads leave the flag as it is.
C15_RetryDiscipline ==
  /\ [][\A t \in Threads :
          (Pc(t) = "cas" /\ Moves(t)) => Pc(t)' \in {"f", "spin"}]_vars
  /\ [][\A t \in Threads :
          (Pc(t) = "spin" /\ Moves(t)) =>
            /\ locked = UNLOCKED
            /\ Pc(t)' = "cas" /\ Top(t)'.seen
            /\ locked' = locked /\ lockedMsg' = lockedMsg]_vars
  /\ [][\A t \in Threads :
          (Pc(t) = "spin" /\ locked = LOCKED /\ locked' = LOCKED) =>
            stack'[t] = stack[t]]_vars
  /\ [][\A t \in Threads :
          (Pc(t)' = "cas" /\ Moves(t)) =>
            \/ Pc(t) = "idle"
            \/ Pc(t) = "spin" /\ locked = UNLOCKED]_vars

\* Thread t has left the inner loop after a load that returned UNLOCKED,
\* and another thread has taken the flag before t's next compare-exchange.
C15_Witness ==
  \E t, u \in Threads :
    /\ t # u /\ Pc(t) = "cas" /\ Top(t).seen
    /\ locked = LOCKED /\ lockedMsg.by = u /\ InCS(u)

\* C16: the naive entry point breaks with_lock_3 when the two are mixed.
\* The store of line 27 is made whatever the flag holds: when it is made
\* while another thread is in the critical section of a with_lock_3 call,
\* the naive thread enters f, the with_lock_3 caller stays in its critical
\* section, and the flag's LOCKED is now the naive thread's store.  A
\* compare-exchange of with_lock_3 itself wins only on the UNLOCKED flag.
C16_NaiveIgnoresCasLock ==
  /\ [][\A a, b \in Threads :
          (a # b /\ Pc(a) = "store" /\ Moves(a) /\ InCS(b) /\ Top(b).fn = 3) =>
             /\ ExecutingF(a)' /\ Top(a)'.fn = 1
             /\ InCS(b)' /\ stack'[b] = stack[b]
             /\ locked' = LOCKED /\ lockedMsg'.by = a]_vars
  /\ [][\A b \in Threads : CasWins(b) => locked = UNLOCKED]_vars

\* A with_lock_3 caller and a with_lock caller are both in their critical
\* sections: the naive thread loaded UNLOCKED before the compare-exchange
\* of the other won, and stored LOCKED after it.
C16_Witness ==
  \E a, b \in Threads :
    /\ a # b
    /\ ExecutingF(a) /\ Top(a).fn = 1
    /\ ExecutingF(b) /\ Top(b).fn = 3
    /\ locked = LOCKED /\ lockedMsg.by = a

\* No thread is inside a with_lock* call.
Quiescent == \A t \in Threads : stack[t] = <<>>

\* C17: for every variant, whenever no thread is inside a call (every
\* started call has returned) the flag is UNLOCKED.
C17_QuiescentUnlocked == Quiescent => (locked = UNLOCKED /\ Holders = {})

\* All calls of the naive with_lock have returned after a race: the write
\* of the thread that unlocked last is not the last write of the cell, so
\* another thread wrote, inside its own critical section, between that
\* write and that unlock store.
C17_Witness ==
  /\ workload.fns = {1}
  /\ Quiescent /\ AllReturned
  /\ locked = UNLOCKED
  /\ lockedMsg.stamp >= 2 /\ lockedMsg.stamp < Len(v)

\* The thread is in the acquire loop of with_lock_2 or with_lock_3.
Trying(t) == Pc(t) \in {"cas", "spin"}

CasFails(t) == Pc(t) = "cas" /\ Pc(t)' = "spin"

\* C19: a failed compare_exchange_weak has no effect.  Whether it fails on
\* the LOCKED flag or spuriously on the UNLOCKED flag, the flag, the store
\* it holds, the cell, every thread's view of the cell and the set of
\* threads in a critical section are as before and the thread is outside
\* the critical section; and in every state, spurious failures or not, at
\* most one thread is in a critical section and the flag is then LOCKED.
C19_FailedCasNoEffect ==
  /\ [][\A t \in Threads :
          CasFails(t) =>
            /\ locked' = locked /\ lockedMsg' = lockedMsg
            /\ v' = v /\ view' = view
            /\ calls' = calls /\ lastRet' = lastRet
            /\ ~InCS(t)' /\ Holders' = Holders
            /\ \A u \in Threads \ {t} : stack'[u] = stack[u]]_vars
  /\ [](Cardinality(Holders) <= 1 /\ (Holders # {} => locked = LOCKED))

\* Thread a is in the inner loop after a failure that was spurious (no
\* thread has stored to the flag yet) and thread b then took the flag.
C19_Witness ==
  \E a, b \in Threads :
    /\ a # b /\ Pc(a) = "spin" /\ ~Top(a).seen
    /\ InCS(b) /\ Top(b).acq.by = 0 /\ locked = LOCKED /\ lockedMsg.by = b
    /\ \A u \in Threads : calls[u] = 0

====
